---- MODULE Spec2Model ----
(***************************************************************************)
(* Transcript acquisition pipelines of transcription_helpers.              *)
(*                                                                         *)
(*   transcript_downloader.py  main(): native caption -> audio download -> *)
(*                             local Whisper -> Whishper server             *)
(*   podcast_transcriber.py    main(): locate audio -> download -> Whisper  *)
(*                                                                         *)
(* One run of a program is a walk of pc from "start" to "done"; NewRun     *)
(* starts the next invocation on the same item, the files on disk kept.    *)
(* SpecLoc applies the two audio locators to every page within the bounds.  *)
(***************************************************************************)
EXTENDS Integers, Sequences, FiniteSets, TLC

\* ------------------------------------------------------------------ bounds
MaxLangs == 2
MaxPageItems == 2
PipelinePageItems == 1

\* ------------------------------------------------------------- value sets
Langs == {"en", "fr"}
Formats == {"text", "json", "vtt"}

LangLists == UNION {[1..n -> Langs] : n \in 1..MaxLangs}

NoText == [src |-> "none", track |-> "-", fmt |-> "-"]
NoErr == [kind |-> "none", cause |-> "-", by |-> "-"]
NoFile == "none"
NoPath == "-"
PartialText == [src |-> "partial", track |-> "-", fmt |-> "-"]

Err(kind, cause, by) == [kind |-> kind, cause |-> cause, by |-> by]

VARIABLES
    prog,             \* which program is running: "yt" | "pod"
    args,             \* the parsed command line
    WHISPER_AVAILABLE,\* the import-time flag
    video,            \* the item: which caption requests succeed
    pc,               \* position of main()
    langIdx,          \* get_transcript's loop position
    requests,         \* caption requests issued, in order
    language_used,
    transcript_text,
    audio_file,       \* main's local: NoFile is None
    disk,             \* audio files on disk; they outlive a run
    attempts,         \* strategy outcomes, in order
    calls,            \* engine invocations, in order, with the file read
    downloads,        \* times download_audio was called in this run
    cleanups,         \* times a cleanup step ran in this run
    saved,            \* what this run wrote to the transcript file
    saves,            \* times save_transcript was called in this run
    whisper_error,    \* main's "except Exception as whisper_error"
    reported,         \* the error printed to stderr
    exitCode,         \* -1 while running
    prevText,         \* transcript of the previous caption-sourced run
    web,              \* what the episode page request returns
    located,          \* what the audio locator returned or raised
    output_path,      \* where save_transcript was told to write
    opened            \* the podcast download opened its file for writing

vars == <<prog, args, WHISPER_AVAILABLE, video, pc, langIdx, requests,
          language_used, transcript_text, audio_file, disk, attempts, calls,
          downloads, cleanups, saved, saves, whisper_error, reported,
          exitCode, prevText, web, located, output_path, opened>>

\* ------------------------------------------------- transcript_downloader.py

\* The file yt-dlp writes: temp_dir / "<video_id>.mp3".
YtAudioPath == "youtube_transcripts/id.mp3"

\* YouTubeTranscriptApi.get_transcript(video_id, languages=[lang]): the track.
CaptionAvailable(lang) == lang \in video.captions

Track(lang) == [lang |-> lang]

\* format_transcript: one formatter per format type.
format_transcript(transcript_data, format_type) ==
    [src |-> "caption", track |-> transcript_data.lang, fmt |-> format_type]

\* transcribe_with_local_whisper passes language, or None for 'en'.
YtWhisperLanguage(language) == IF language # "en" THEN language ELSE "None"

\* primary_language = languages[0] if languages else 'en'
primary_language ==
    IF Len(args.languages) > 0 THEN args.languages[1] ELSE "en"

Attempt(strategy, outcome) == [strategy |-> strategy, outcome |-> outcome]

\* Mutant: the local engine is tried only when it is pinned.
TryLocalOnlyIfPinned == args.use_local_whisper

\* Mutant: the local engine is tried first in every run.
TryLocalAlways == TRUE

\* if args.use_local_whisper or WHISPER_AVAILABLE
TryLocalFirst == args.use_local_whisper \/ WHISPER_AVAILABLE

\* Mutant: the captions are skipped as well when an audio file of an earlier
\* run is on disk.
SkipCaptionsWhenAudioCached == args.audio_only \/ YtAudioPath \in disk

\* Mutant: the captions are requested whatever --audio-only says.
NeverSkipCaptions == FALSE

\* "if not args.audio_only" guards the caption strategy.
SkipCaptions == args.audio_only

\* Mutant: the language recorded is the first preference, not the one found.
RecordsFirstPreference(i) == args.languages[1]

\* "return transcript_data, lang" in pass i of get_transcript's loop.
RecordedLanguage(i) == args.languages[i]

\* Mutant: every failure of the local engine is re-raised.
AlwaysReraise == TRUE

\* "if args.use_local_whisper: raise whisper_error"
PinnedLocal == args.use_local_whisper

\* Mutant: the availability check stands inside the try block, so that its
\* error is wrapped like a transcription failure.
LocalErrorWrapped == Err("LocalWhisperFailed", "not installed", "LocalEngine")

\* What transcribe_with_local_whisper raises: the availability check stands
\* before its try block, a failure inside it is wrapped.
LocalError ==
    IF ~WHISPER_AVAILABLE
    THEN Err("WhisperNotInstalled", "-", "LocalEngine")
    ELSE Err("LocalWhisperFailed", "transcribe", "LocalEngine")

\* Mutant: a failed fallback re-raises the local engine's error.
FallbackReraisesFirst(e) == whisper_error

\* An exception of the fallback call, raised inside the handler of
\* whisper_error, is the one that reaches "except Exception as e".
FallbackRaised(e) == e

\* common_langs of the listing, as far as the languages of the model go.
common_langs == <<"en", "fr">>

\* extract_video_id, then --list-transcripts, then the branch on --audio-only.
YtStart ==
    /\ prog = "yt" /\ pc = "start"
    /\ IF ~args.url_ok
       THEN /\ reported' = Err("ValueError", "video id", "extract_video_id")
            /\ exitCode' = 1
            /\ pc' = "done"
       ELSE /\ pc' = IF args.list_transcripts THEN "list"
                     ELSE IF SkipCaptions THEN "download" ELSE "caption"
            /\ UNCHANGED <<reported, exitCode>>
    /\ UNCHANGED <<opened, output_path, prog, args, WHISPER_AVAILABLE, video, langIdx, requests,
                   language_used, transcript_text, audio_file, disk,
                   attempts, calls, downloads, cleanups, saved, saves,
                   whisper_error, prevText, web, located>>

\* "if args.list_transcripts": one request per common language, the
\* available ones printed, then "return".
YtList ==
    /\ prog = "yt" /\ pc = "list"
    /\ requests' = common_langs
    /\ exitCode' = 0
    /\ pc' = "done"
    /\ UNCHANGED <<opened, output_path, prog, args, WHISPER_AVAILABLE, video, langIdx,
                   language_used, transcript_text, audio_file, disk,
                   attempts, calls, downloads, cleanups, saved, saves,
                   reported, whisper_error, prevText, web, located>>

\* get_transcript: one pass of "for lang in languages".
YtCaptionRequest ==
    /\ prog = "yt" /\ pc = "caption"
    /\ langIdx <= Len(args.languages)
    /\ LET lang == args.languages[langIdx] IN
       /\ requests' = Append(requests, lang)
       /\ IF CaptionAvailable(lang)
          THEN /\ language_used' = RecordedLanguage(langIdx)
               /\ transcript_text' = format_transcript(Track(lang), args.format)
               /\ attempts' = Append(attempts, Attempt("NativeCaption", "Success"))
               /\ pc' = "save"
               /\ UNCHANGED langIdx
          ELSE /\ langIdx' = langIdx + 1
               /\ UNCHANGED <<language_used, transcript_text, attempts, pc>>
    /\ UNCHANGED <<opened, output_path, prog, args, WHISPER_AVAILABLE, video, audio_file, disk,
                   calls, downloads, cleanups, saved, saves, reported,
                   exitCode, whisper_error, prevText, web, located>>

\* Mutant: the exception of get_transcript reaches the handler that exits.
CaptionFailureIsFatal == "fail"

\* "except Exception as e: print(No transcript available)" leaves
\* transcript_text None, so that "if transcript_text is None" is entered.
AfterCaptionFailure == "download"

\* Mutant: the request without a language follows the first failure.
DefaultAfterFirstFailure == langIdx > 1

\* "for lang in languages" has run to its end, every pass in "continue".
PreferencesExhausted == langIdx > Len(args.languages)

\* get_transcript: the request without a language, then the raise that
\* main catches as "No transcript available".
YtCaptionDefault ==
    /\ prog = "yt" /\ pc = "caption"
    /\ PreferencesExhausted
    /\ requests' = Append(requests, "any")
    /\ IF video.defaultTrack
       THEN /\ language_used' = "unknown"
            /\ transcript_text' = format_transcript(Track("default"), args.format)
            /\ attempts' = Append(attempts, Attempt("NativeCaption", "Success"))
            /\ pc' = "save"
       ELSE /\ attempts' = Append(attempts, Attempt("NativeCaption", "Failed"))
            /\ pc' = AfterCaptionFailure
            /\ UNCHANGED <<language_used, transcript_text>>
    /\ UNCHANGED <<opened, output_path, prog, args, WHISPER_AVAILABLE, video, langIdx,
                   audio_file, disk, calls, downloads, cleanups, saved,
                   saves, reported, exitCode, whisper_error, prevText, web,
                   located>>

\* Mutant: the engines are tried although the download raised.
DownloadFailureIgnored == "engine"

\* An exception of download_audio leaves the try block of the transcription
\* for its handler "except Exception as e".
AfterDownloadFailure == "fail"

\* download_audio: yt-dlp, then the check that the file exists.
YtDownload ==
    /\ prog = "yt" /\ pc = "download"
    /\ downloads' = downloads + 1
    /\ \E outcome \in {"ok", "ytdlp_failed", "not_found"} :
         CASE outcome = "ok" ->
                /\ audio_file' = YtAudioPath
                /\ disk' = disk \cup {YtAudioPath}
                /\ pc' = "engine"
                /\ UNCHANGED reported
           [] outcome = "ytdlp_failed" ->
                /\ reported' = Err("DownloadFailed", "yt-dlp", "Download")
                /\ pc' = AfterDownloadFailure
                /\ UNCHANGED <<audio_file, disk>>
           [] outcome = "not_found" ->
                /\ YtAudioPath \notin disk
                /\ reported' = Err("AudioNotFound", "-", "Download")
                /\ pc' = AfterDownloadFailure
                /\ UNCHANGED <<audio_file, disk>>
    /\ UNCHANGED <<opened, output_path, prog, args, WHISPER_AVAILABLE, video, langIdx, requests,
                   language_used, transcript_text, attempts, calls,
                   cleanups, saved, saves, exitCode, whisper_error,
                   prevText, web, located>>

\* Mutant: the fallback starts over from the download.
RedownloadBeforeFallback == "download"

\* Mutant: a failed local engine is tried again.
RetryLocalEngine == "engine"

\* The handler of whisper_error goes on to transcribe_with_whishper with the
\* audio_file main already holds.
AfterLocalFailure == "fallback"

\* transcribe_with_local_whisper and the handler around it.
YtLocal ==
    /\ prog = "yt" /\ pc = "engine"
    /\ TryLocalFirst
    /\ calls' = Append(calls, [engine |-> "LocalEngine", file |-> audio_file])
    /\ \E outcome \in {"ok", "failed"} :
         IF WHISPER_AVAILABLE /\ outcome = "ok"
         THEN /\ transcript_text' =
                    [src |-> "local", track |-> YtWhisperLanguage(primary_language),
                     fmt |-> "plain"]
              /\ attempts' = Append(attempts, Attempt("LocalEngine", "Success"))
              /\ pc' = "save"
              /\ UNCHANGED <<whisper_error, reported>>
         ELSE /\ attempts' = Append(attempts, Attempt("LocalEngine", "Failed"))
              /\ whisper_error' = LocalError
              /\ IF PinnedLocal
                 THEN /\ reported' = LocalError
                      /\ pc' = "fail"
                 ELSE /\ pc' = AfterLocalFailure
                      /\ UNCHANGED reported
              /\ UNCHANGED transcript_text
    /\ UNCHANGED <<opened, output_path, prog, args, WHISPER_AVAILABLE, video, langIdx, requests,
                   language_used, audio_file, disk, downloads, cleanups,
                   saved, saves, exitCode, prevText, web,
                   located>>

\* transcribe_with_whishper: what one call raises.
WhishperErrors ==
    { Err("Timeout", "-", "RemoteEngine"),
      Err("ConnectionError", "-", "RemoteEngine"),
      Err("TranscriptionFailed", "api status", "RemoteEngine"),
      Err("TranscriptionFailed", "response format", "RemoteEngine") }

\* The fallback inside "except Exception as whisper_error".
YtRemoteFallback ==
    /\ prog = "yt" /\ pc = "fallback"
    /\ calls' = Append(calls, [engine |-> "RemoteEngine", file |-> audio_file])
    /\ \/ /\ transcript_text' =
                [src |-> "remote", track |-> primary_language, fmt |-> "plain"]
          /\ attempts' = Append(attempts, Attempt("RemoteEngine", "Success"))
          /\ pc' = "save"
          /\ UNCHANGED reported
       \/ /\ \E e \in WhishperErrors : reported' = FallbackRaised(e)
          /\ attempts' = Append(attempts, Attempt("RemoteEngine", "Failed"))
          /\ pc' = "fail"
          /\ UNCHANGED transcript_text
    /\ UNCHANGED <<opened, output_path, prog, args, WHISPER_AVAILABLE, video, langIdx, requests,
                   language_used, audio_file, disk, downloads, cleanups, saved,
                   saves, whisper_error, exitCode, prevText, web, located>>

\* The else branch: "Use Whishper directly".
YtRemoteDirect ==
    /\ prog = "yt" /\ pc = "engine"
    /\ ~TryLocalFirst
    /\ calls' = Append(calls, [engine |-> "RemoteEngine", file |-> audio_file])
    /\ \/ /\ transcript_text' =
                [src |-> "remote", track |-> primary_language, fmt |-> "plain"]
          /\ attempts' = Append(attempts, Attempt("RemoteEngine", "Success"))
          /\ pc' = "save"
          /\ UNCHANGED reported
       \/ /\ \E e \in WhishperErrors : reported' = e
          /\ attempts' = Append(attempts, Attempt("RemoteEngine", "Failed"))
          /\ pc' = "fail"
          /\ UNCHANGED transcript_text
    /\ UNCHANGED <<opened, output_path, prog, args, WHISPER_AVAILABLE, video, langIdx, requests,
                   language_used, audio_file, disk, downloads, cleanups, saved,
                   saves, whisper_error, exitCode, prevText, web, located>>

\* Mutant: the failure handler leaves the audio file where it is.
AlwaysKeepOnFailure == TRUE

\* "... and not args.keep_audio" in the failure handler.
KeepOnFailure == args.keep_audio

\* "except Exception as e" of the transcription block: cleanup, exit(1).
YtFail ==
    /\ prog = "yt" /\ pc = "fail"
    /\ cleanups' = cleanups + 1
    /\ disk' = IF audio_file # NoFile /\ audio_file \in disk /\ ~KeepOnFailure
               THEN disk \ {audio_file} ELSE disk
    /\ exitCode' = 1
    /\ pc' = "done"
    /\ UNCHANGED <<opened, output_path, prog, args, WHISPER_AVAILABLE, video, langIdx, requests,
                   language_used, transcript_text, audio_file, attempts,
                   calls, downloads, saved, saves, reported, whisper_error,
                   prevText, web, located>>

\* "Determine output path": --output, or transcripts/<video_id>.<extension>
\* with the extension taken from --format.
YtOutputPath ==
    IF args.output THEN "args.output"
    ELSE LET extension == IF args.format # "text" THEN args.format ELSE "txt"
         IN IF extension = "txt" THEN "transcripts/id.txt"
            ELSE IF extension = "json" THEN "transcripts/id.json"
            ELSE "transcripts/id.vtt"

\* save_transcript; an I/O error reaches main's last handler, which exits.
\* mkdir or open failing leaves no file; a write failing leaves the file that
\* open(output_path, 'w') created, with part of the text or none.
YtSave ==
    /\ prog = "yt" /\ pc = "save"
    /\ output_path' = YtOutputPath
    /\ saves' = saves + 1
    /\ \/ /\ saved' = transcript_text
          /\ pc' = "cleanup"
          /\ UNCHANGED <<reported, exitCode>>
       \/ /\ reported' = Err("OSError", "save_transcript", "save_transcript")
          /\ exitCode' = 1
          /\ pc' = "done"
          /\ saved' \in {NoText, PartialText}
    /\ UNCHANGED <<opened, prog, args, WHISPER_AVAILABLE, video, langIdx, requests,
                   language_used, transcript_text, audio_file, disk,
                   attempts, calls, downloads, cleanups, whisper_error,
                   prevText, web, located>>

\* Mutant: the cleanup removes the file at the download path, whether or not
\* this run downloaded it.
CleanupTargetByPath == YtAudioPath

\* The file the cleanup looks at is main's local audio_file, None unless
\* this run downloaded.
CleanupTarget == audio_file

\* The cleanup after the save.
YtCleanup ==
    /\ prog = "yt" /\ pc = "cleanup"
    /\ cleanups' = cleanups + 1
    /\ disk' = IF CleanupTarget # NoFile /\ CleanupTarget \in disk
                  /\ ~args.keep_audio
               THEN disk \ {CleanupTarget} ELSE disk
    /\ exitCode' = 0
    /\ pc' = "done"
    /\ UNCHANGED <<opened, output_path, prog, args, WHISPER_AVAILABLE, video, langIdx, requests,
                   language_used, transcript_text, audio_file, attempts,
                   calls, downloads, saved, saves, reported, whisper_error,
                   prevText, web, located>>


\* --------------------------------------------- podcast_transcriber.py: locators

\* A value read from the page. V(i, f) is the string in field f of the i-th
\* JSON-LD block; a link is the i-th match of the audio pattern.
V(i, f) == [from |-> "ld", idx |-> i, field |-> f]
LinkUrl(i) == [from |-> "scan", idx |-> i, field |-> "-"]
NoneVal == [from |-> "None", idx |-> 0, field |-> "-"]
EmptyStr == [from |-> "empty", idx |-> 0, field |-> "-"]
UnknownEpisode == [from |-> "default", idx |-> 0, field |-> "Unknown Episode"]
UnknownShow == [from |-> "default", idx |-> 0, field |-> "Unknown Show"]
\* f"https://play.acast.com/s/{show_id}/{episode_id}.mp3"
ConstructedUrl == [from |-> "constructed", idx |-> 0, field |-> "play.acast.com"]

\* Mutant: "is not None" in place of truthiness.
IsNotNone(v) == v # NoneVal

\* Python truthiness of a value that is a string or None.
Truthy(v) == v \notin {NoneVal, EmptyStr}

\* d.get(f): a field is "absent", "null", "empty" (the string "") or "str".
Get(status, i, f) ==
    IF status = "str" THEN V(i, f)
    ELSE IF status = "empty" THEN EmptyStr
    ELSE NoneVal

\* d.get(f, default)
GetDefault(status, i, f, default) ==
    IF status = "absent" THEN default ELSE Get(status, i, f)

\* a or b
PyOr(a, b) == IF Truthy(a) THEN a ELSE b

\* A <script type="application/ld+json"> block of the page.
Blk(json, type, name, url, contentUrl, media, mcu, murl, series, sname) ==
    [json |-> json, type |-> type, name |-> name, url |-> url,
     contentUrl |-> contentUrl, media |-> media, mcu |-> mcu, murl |-> murl,
     series |-> series, sname |-> sname]

Episode(name, url, contentUrl, media, mcu, murl, series, sname) ==
    Blk("dict", "PodcastEpisode", name, url, contentUrl, media, mcu, murl,
        series, sname)

MalformedBlock ==
    Blk("malformed", "-", "absent", "absent", "absent", "absent", "absent",
        "absent", "absent", "absent")
NonDictBlock ==
    Blk("nondict", "-", "absent", "absent", "absent", "absent", "absent",
        "absent", "absent", "absent")
SeriesBlock ==
    Blk("dict", "PodcastSeries", "str", "str", "str", "dict", "str", "str",
        "absent", "absent")

BlockKinds ==
    { MalformedBlock, NonDictBlock, SeriesBlock,
      Episode("str", "absent", "str", "absent", "absent", "absent", "dict", "str"),
      Episode("str", "str", "absent", "absent", "absent", "absent", "dict", "str"),
      Episode("str", "absent", "absent", "dict", "str", "absent", "dict", "str"),
      Episode("str", "absent", "absent", "dict", "absent", "str", "dict", "str"),
      Episode("str", "str", "str", "dict", "str", "str", "dict", "str"),
      Episode("str", "null", "absent", "dict", "str", "absent", "dict", "str"),
      Episode("str", "absent", "str", "dict", "str", "absent", "dict", "str"),
      Episode("absent", "absent", "absent", "nondict", "absent", "absent",
              "absent", "absent"),
      Episode("null", "absent", "absent", "dict", "str", "absent", "dict", "null"),
      Episode("str", "absent", "absent", "absent", "absent", "absent",
              "nondict", "absent"),
      Episode("absent", "absent", "absent", "dict", "null", "absent", "dict",
              "absent"),
      Episode("str", "empty", "absent", "dict", "empty", "absent", "dict", "str"),
      Episode("str", "empty", "absent", "dict", "absent", "str", "dict", "str") }

\* A match of r'https?://[^\s<>"]+\.(?:mp3|m4a)': the hosting words its host
\* and its path contain.
Link(host, path) == [host |-> host, path |-> path]

LinkKinds ==
    { Link("none", "none"), Link("acast", "none"), Link("libsyn", "none"),
      Link("none", "libsyn"), Link("none", "media") }

\* w in url.lower()
Contains(link, w) == link.host = w \/ link.path = w

AppleHosts == {"ausha", "acast", "libsyn", "buzzsprout", "simplecast", "megaphone"}
AcastHosts == {"acast", "media"}

SeqsOf(S, n) == [1..n -> S]

Pages(maxItems) ==
    UNION { {[blocks |-> b, links |-> l] : b \in SeqsOf(BlockKinds, nb),
                                           l \in SeqsOf(LinkKinds, nl)} :
            <<nb, nl>> \in {x \in (0..maxItems) \X (0..maxItems) :
                              x[1] + x[2] <= maxItems} }

\* The locals of the extraction loop.
LdState(audio_url, episode_title, show_title) ==
    [audio_url |-> audio_url, episode_title |-> episode_title,
     show_title |-> show_title]

\* Mutant: the Apple Podcasts loop body reads a top-level contentUrl first.
AppleBlockDirectFirst(b, i, st) ==
    IF b.json = "dict" /\ b.type = "PodcastEpisode"
    THEN LET a0 == IF b.contentUrl = "str" THEN V(i, "contentUrl")
                   ELSE IF b.url # "absent" THEN Get(b.url, i, "url")
                   ELSE st.audio_url
             a2 == IF ~Truthy(a0) /\ b.media = "dict"
                   THEN PyOr(Get(b.mcu, i, "associatedMedia.contentUrl"),
                             Get(b.murl, i, "associatedMedia.url"))
                   ELSE a0
         IN LdState(a2,
                    GetDefault(b.name, i, "name", st.episode_title),
                    IF b.series = "dict"
                    THEN GetDefault(b.sname, i, "partOfSeries.name", st.show_title)
                    ELSE st.show_title)
    ELSE st

\* The body of "for json_str in json_ld_matches" in
\* extract_apple_podcasts_audio_url, for block i.
AppleBlock(b, i, st) ==
    IF b.json = "dict" /\ b.type = "PodcastEpisode"
    THEN LET a1 == IF b.url # "absent" THEN Get(b.url, i, "url")
                   ELSE st.audio_url
             a2 == IF ~Truthy(a1) /\ b.media = "dict"
                   THEN PyOr(Get(b.mcu, i, "associatedMedia.contentUrl"),
                             Get(b.murl, i, "associatedMedia.url"))
                   ELSE a1
         IN LdState(a2,
                    GetDefault(b.name, i, "name", st.episode_title),
                    IF b.series = "dict"
                    THEN GetDefault(b.sname, i, "partOfSeries.name", st.show_title)
                    ELSE st.show_title)
    ELSE st

\* The same loop body in extract_acast_audio_url.
AcastBlock(b, i, st) ==
    IF b.json = "dict" /\ b.type = "PodcastEpisode"
    THEN LdState(IF b.media = "dict"
                 THEN Get(b.mcu, i, "associatedMedia.contentUrl")
                 ELSE st.audio_url,
                 GetDefault(b.name, i, "name", st.episode_title),
                 IF b.series = "dict"
                 THEN GetDefault(b.sname, i, "partOfSeries.name", st.show_title)
                 ELSE st.show_title)
    ELSE st

BlockStep(platform, b, i, st) ==
    IF platform = "apple" THEN AppleBlock(b, i, st) ELSE AcastBlock(b, i, st)

\* Mutant: a block that json.loads rejects ends the loop.
RECURSIVE ScanBlocksUntilMalformed(_, _, _, _)
ScanBlocksUntilMalformed(platform, blocks, i, st) ==
    IF i > Len(blocks) THEN st
    ELSE IF blocks[i].json = "malformed" THEN st
    ELSE LET st2 == BlockStep(platform, blocks[i], i, st)
         IN IF Truthy(st2.audio_url) THEN st2
            ELSE ScanBlocksUntilMalformed(platform, blocks, i + 1, st2)

\* The loop over the blocks, with its break once audio_url is set.
RECURSIVE ScanBlocks(_, _, _, _)
ScanBlocks(platform, blocks, i, st) ==
    IF i > Len(blocks) THEN st
    ELSE LET st2 == BlockStep(platform, blocks[i], i, st)
         IN IF Truthy(st2.audio_url) THEN st2
            ELSE ScanBlocks(platform, blocks, i + 1, st2)

\* "if any(host in url.lower() ...)" resp. "'acast' in ... or 'media' in ...".
Preferred(platform, link) ==
    \E w \in (IF platform = "apple" THEN AppleHosts ELSE AcastHosts) :
        Contains(link, w)

\* The pattern scan: the first preferred match, else the first match.
ScanLinks(platform, links) ==
    LET pref == {i \in 1..Len(links) : Preferred(platform, links[i])}
    IN IF pref # {} THEN LinkUrl(CHOOSE i \in pref : \A j \in pref : i <= j)
       ELSE IF Len(links) > 0 THEN LinkUrl(1)
       ELSE NoneVal

Located(audio_url, episode_title, show_title) ==
    [status |-> "ok", audio_url |-> audio_url,
     episode_title |-> episode_title, show_title |-> show_title]
LocateError(kind) ==
    [status |-> kind, audio_url |-> NoneVal,
     episode_title |-> NoneVal, show_title |-> NoneVal]
NotLocated == LocateError("-")

\* Mutant: the constructed URL is taken whenever there is one.
ConstructedFirst(found, direct_audio_url) ==
    IF Truthy(direct_audio_url) THEN direct_audio_url ELSE found

\* "if not audio_url and direct_audio_url: audio_url = direct_audio_url"
LastResort(found, direct_audio_url) ==
    IF ~Truthy(found) /\ Truthy(direct_audio_url)
    THEN direct_audio_url ELSE found

\* What follows the page request in both locators, given the constructed
\* URL (None for Apple Podcasts).
ExtractFromPage(platform, page, direct_audio_url) ==
    LET st == ScanBlocks(platform, page.blocks, 1,
                         LdState(NoneVal, UnknownEpisode, UnknownShow))
        a1 == IF Truthy(st.audio_url) THEN st.audio_url
              ELSE ScanLinks(platform, page.links)
        a2 == LastResort(a1, direct_audio_url)
    IN IF Truthy(a2) THEN Located(a2, st.episode_title, st.show_title)
       ELSE LocateError("no audio url")

\* extract_apple_podcasts_audio_url
extract_apple_podcasts_audio_url(w) ==
    IF w.fetch # "ok" THEN LocateError("fetch failed")
    ELSE ExtractFromPage("apple", w.page, NoneVal)

\* extract_acast_audio_url; url_match: the page URL holds the two ids.
extract_acast_audio_url(url_match, w) ==
    LET direct_audio_url == IF url_match THEN ConstructedUrl ELSE NoneVal
    IN IF w.fetch # "ok" THEN LocateError("fetch failed")
       ELSE ExtractFromPage("acast", w.page, direct_audio_url)

\* Mutant: a URL of neither platform is handed to the Apple Podcasts locator.
PlatformDefaultsToApple(url) ==
    IF url \in {"acast_ids", "acast_other"} THEN "acast" ELSE "apple"

\* main's dispatch on the URL.
Platform(url) ==
    IF url \in {"acast_ids", "acast_other"} THEN "acast"
    ELSE IF url = "apple" THEN "apple"
    ELSE "unknown"

Locate(url, w) ==
    IF Platform(url) = "acast"
    THEN extract_acast_audio_url(url = "acast_ids", w)
    ELSE extract_apple_podcasts_audio_url(w)

EmptyPage == [blocks |-> <<>>, links |-> <<>>]
NoWeb == [fetch |-> "-", page |-> EmptyPage]


\* ------------------------------------------------ podcast_transcriber.py: main

\* audio_dir / f"{safe_filename}.mp3"
PodAudioPath == "podcast_audio/episode.mp3"

\* transcribe_audio passes language, or None for 'auto'.
PodWhisperLanguage(language) == IF language # "auto" THEN language ELSE "None"

\* The platform dispatch, the locator, and the safe filename made of the
\* episode title (re.sub raises TypeError on a title that is no string).
PodLocate ==
    /\ prog = "pod" /\ pc = "start"
    /\ IF Platform(args.url) = "unknown"
       THEN /\ reported' = Err("Unsupported", "platform", "main")
            /\ exitCode' = 1
            /\ pc' = "done"
            /\ UNCHANGED located
       ELSE LET r == Locate(args.url, web) IN
            /\ located' = r
            /\ IF r.status # "ok"
               THEN /\ reported' = Err("ExtractionFailed", r.status, "Locator")
                    /\ exitCode' = 1
                    /\ pc' = "done"
               ELSE IF r.episode_title = NoneVal
               THEN /\ reported' = Err("TypeError", "safe_filename", "main")
                    /\ exitCode' = 1
                    /\ pc' = "done"
               ELSE /\ pc' = "download"
                    /\ UNCHANGED <<reported, exitCode>>
    /\ UNCHANGED <<opened, output_path, prog, args, WHISPER_AVAILABLE, video, langIdx, requests,
                   language_used, transcript_text, audio_file, disk,
                   attempts, calls, downloads, cleanups, saved, saves,
                   whisper_error, prevText, web>>

\* Mutant: the destination is opened before the request is made.
OpenBeforeRequest == TRUE

\* "with open(output_file, 'wb')" stands behind requests.get and
\* raise_for_status.
OpenPrecedesRequest == FALSE

\* download_audio: the request, then the file opened and the body streamed.
\* Every exception reaches main's handler, which prints it and exits.
PodDownload ==
    /\ prog = "pod" /\ pc = "download"
    /\ downloads' = downloads + 1
    /\ \E outcome \in {"ok", "request_failed", "open_failed", "stream_failed"} :
         CASE outcome = "ok" ->
                /\ opened' = TRUE
                /\ audio_file' = PodAudioPath
                /\ disk' = disk \cup {PodAudioPath}
                /\ pc' = "engine"
                /\ UNCHANGED <<reported, exitCode>>
           [] outcome = "request_failed" ->
                /\ reported' = Err("DownloadFailed", "request", "Download")
                /\ opened' = OpenPrecedesRequest
                /\ disk' = IF OpenPrecedesRequest
                           THEN disk \cup {PodAudioPath} ELSE disk
                /\ exitCode' = 1
                /\ pc' = "done"
                /\ UNCHANGED audio_file
           [] outcome = "open_failed" ->
                /\ reported' = Err("OSError", "open", "Download")
                /\ opened' = FALSE
                /\ exitCode' = 1
                /\ pc' = "done"
                /\ UNCHANGED <<audio_file, disk>>
           [] outcome = "stream_failed" ->
                /\ reported' = Err("DownloadFailed", "stream", "Download")
                /\ opened' = TRUE
                /\ disk' = disk \cup {PodAudioPath}
                /\ exitCode' = 1
                /\ pc' = "done"
                /\ UNCHANGED audio_file
    /\ UNCHANGED <<output_path, prog, args, WHISPER_AVAILABLE, video, langIdx, requests,
                   language_used, transcript_text, attempts, calls,
                   cleanups, saved, saves, whisper_error, prevText, web,
                   located>>

\* Mutant: the podcast program sends the audio to the remote engine.
PodEngineRemote == "RemoteEngine"

\* main calls transcribe_audio, the local Whisper entry point.
PodEngine == "LocalEngine"

\* transcribe_audio
PodTranscribe ==
    /\ prog = "pod" /\ pc = "engine"
    /\ calls' = Append(calls, [engine |-> PodEngine, file |-> audio_file])
    /\ \E outcome \in {"ok", "failed"} :
         IF WHISPER_AVAILABLE /\ outcome = "ok"
         THEN /\ transcript_text' =
                    [src |-> "local", track |-> PodWhisperLanguage(args.language),
                     fmt |-> "plain"]
              /\ attempts' = Append(attempts, Attempt("LocalEngine", "Success"))
              /\ pc' = "save"
              /\ UNCHANGED <<reported, exitCode>>
         ELSE /\ attempts' = Append(attempts, Attempt("LocalEngine", "Failed"))
              /\ reported' = IF ~WHISPER_AVAILABLE
                             THEN Err("WhisperNotInstalled", "-", "LocalEngine")
                             ELSE Err("TranscriptionFailed", "transcribe", "LocalEngine")
              /\ exitCode' = 1
              /\ pc' = "done"
              /\ UNCHANGED transcript_text
    /\ UNCHANGED <<opened, output_path, prog, args, WHISPER_AVAILABLE, video, langIdx, requests,
                   language_used, audio_file, disk, downloads, cleanups,
                   saved, saves, whisper_error, prevText, web, located>>

\* Path(args.output), or transcripts/<safe_filename>.txt
PodOutputPath ==
    IF args.output THEN "args.output" ELSE "transcripts/episode.txt"

\* save_transcript with the metadata header.
PodSave ==
    /\ prog = "pod" /\ pc = "save"
    /\ output_path' = PodOutputPath
    /\ saves' = saves + 1
    /\ \/ /\ saved' = transcript_text
          /\ pc' = "cleanup"
          /\ UNCHANGED <<reported, exitCode>>
       \/ /\ reported' = Err("OSError", "save_transcript", "save_transcript")
          /\ exitCode' = 1
          /\ pc' = "done"
          /\ saved' \in {NoText, PartialText}
    /\ UNCHANGED <<opened, prog, args, WHISPER_AVAILABLE, video, langIdx, requests,
                   language_used, transcript_text, audio_file, disk,
                   attempts, calls, downloads, cleanups, whisper_error,
                   prevText, web, located>>

\* "if not args.keep_audio and audio_file.exists(): audio_file.unlink()"
PodCleanup ==
    /\ prog = "pod" /\ pc = "cleanup"
    /\ cleanups' = cleanups + 1
    /\ disk' = IF ~args.keep_audio /\ audio_file \in disk
               THEN disk \ {audio_file} ELSE disk
    /\ exitCode' = 0
    /\ pc' = "done"
    /\ UNCHANGED <<opened, output_path, prog, args, WHISPER_AVAILABLE, video, langIdx, requests,
                   language_used, transcript_text, audio_file, attempts,
                   calls, downloads, saved, saves, reported, whisper_error,
                   prevText, web, located>>

\* ---------------------------------------------------------------- the runs

YtArgs ==
    [url_ok : BOOLEAN, list_transcripts : BOOLEAN, audio_only : BOOLEAN,
     use_local_whisper : BOOLEAN, keep_audio : BOOLEAN, format : Formats,
     languages : LangLists, output : BOOLEAN]

Videos == [captions : SUBSET Langs, defaultTrack : BOOLEAN]
NoVideo == [captions |-> {}, defaultTrack |-> FALSE]

PodUrls == {"acast_ids", "acast_other", "apple", "unknown"}
PodLanguages == {"auto", "en", "fr"}

PodArgs ==
    [url : PodUrls, keep_audio : BOOLEAN, language : PodLanguages,
     output : BOOLEAN]

\* What the episode page request may return in a pipeline run.
PipelineWebs ==
    {[fetch |-> f, page |-> EmptyPage] : f \in {"network_error", "http_error"}}
    \cup {[fetch |-> "ok", page |-> p] : p \in Pages(PipelinePageItems)}

FreshRun ==
    /\ pc = "start"
    /\ langIdx = 1
    /\ requests = <<>>
    /\ language_used = "-"
    /\ transcript_text = NoText
    /\ audio_file = NoFile
    /\ attempts = <<>>
    /\ calls = <<>>
    /\ downloads = 0
    /\ cleanups = 0
    /\ saves = 0
    /\ saved = NoText
    /\ whisper_error = NoErr
    /\ reported = NoErr
    /\ exitCode = -1
    /\ output_path = NoPath
    /\ opened = FALSE

Init ==
    /\ prog \in {"yt", "pod"}
    /\ IF prog = "yt"
       THEN /\ args \in YtArgs
            /\ video \in Videos
            /\ web = NoWeb
       ELSE /\ args \in PodArgs
            /\ video = NoVideo
            /\ web \in PipelineWebs
    /\ WHISPER_AVAILABLE \in BOOLEAN
    /\ FreshRun
    /\ disk = {}
    /\ prevText = NoText
    /\ located = NotLocated

\* The next invocation on the same item with the same url, languages,
\* format and output; the other flags and the installation may differ, the
\* disk is kept.
NewRun ==
    /\ pc = "done"
    /\ prevText' = IF exitCode = 0 /\ transcript_text.src = "caption"
                   THEN transcript_text ELSE prevText
    /\ IF prog = "yt"
       THEN \E lt, ao, lw, ka \in BOOLEAN :
              args' = [args EXCEPT !.list_transcripts = lt,
                                   !.audio_only = ao,
                                   !.use_local_whisper = lw,
                                   !.keep_audio = ka]
       ELSE \E ka \in BOOLEAN :
              args' = [args EXCEPT !.keep_audio = ka]
    /\ WHISPER_AVAILABLE' \in BOOLEAN
    /\ pc' = "start"
    /\ langIdx' = 1
    /\ requests' = <<>>
    /\ language_used' = "-"
    /\ transcript_text' = NoText
    /\ audio_file' = NoFile
    /\ attempts' = <<>>
    /\ calls' = <<>>
    /\ downloads' = 0
    /\ cleanups' = 0
    /\ saves' = 0
    /\ whisper_error' = NoErr
    /\ reported' = NoErr
    /\ exitCode' = -1
    /\ located' = NotLocated
    /\ saved' = NoText
    /\ output_path' = NoPath
    /\ opened' = FALSE
    /\ UNCHANGED <<prog, video, disk, web>>

Next ==
    \/ YtStart
    \/ YtList
    \/ YtCaptionRequest
    \/ YtCaptionDefault
    \/ YtDownload
    \/ YtLocal
    \/ YtRemoteFallback
    \/ YtRemoteDirect
    \/ YtFail
    \/ YtSave
    \/ YtCleanup
    \/ PodLocate
    \/ PodDownload
    \/ PodTranscribe
    \/ PodSave
    \/ PodCleanup
    \/ NewRun

Spec == Init /\ [][Next]_vars

\* ------------------------------------------------- the locators on their own

LocUrls == {"acast_ids", "acast_other", "apple"}

LocWebs ==
    {[fetch |-> f, page |-> EmptyPage] : f \in {"network_error", "http_error"}}
    \cup {[fetch |-> "ok", page |-> p] : p \in Pages(MaxPageItems)}

InitLoc ==
    /\ prog = "loc"
    /\ args \in [url : LocUrls]
    /\ web \in LocWebs
    /\ WHISPER_AVAILABLE = FALSE
    /\ video = NoVideo
    /\ FreshRun
    /\ disk = {}
    /\ prevText = NoText
    /\ located = NotLocated

LocFrame ==
    UNCHANGED <<opened, output_path, prog, args, WHISPER_AVAILABLE, video, langIdx, requests,
                   language_used, transcript_text, audio_file, disk,
                   attempts, calls, downloads, cleanups, saved, saves,
                   reported, exitCode, whisper_error, prevText, web>>

LocateAcast ==
    /\ prog = "loc" /\ pc = "start"
    /\ Platform(args.url) = "acast"
    /\ located' = extract_acast_audio_url(args.url = "acast_ids", web)
    /\ pc' = "done"
    /\ LocFrame

LocateApple ==
    /\ prog = "loc" /\ pc = "start"
    /\ Platform(args.url) = "apple"
    /\ located' = extract_apple_podcasts_audio_url(web)
    /\ pc' = "done"
    /\ LocFrame

NextLoc == LocateAcast \/ LocateApple

SpecLoc == InitLoc /\ [][NextLoc]_vars

\* ------------------------------------------------------------------ claims

Range(f) == {f[i] : i \in DOMAIN f}
Min(S) == CHOOSE i \in S : \A j \in S : i <= j

RemoteCalled == \E i \in DOMAIN calls : calls[i].engine = "RemoteEngine"

\* Every caption request of this item fails for this language list.
NoCaptionForRun ==
    /\ ~video.defaultTrack
    /\ \A i \in DOMAIN args.languages : args.languages[i] \notin video.captions

\* C1: in a YouTube run without --audio-only whose caption requests all fail,
\* with Whisper installed and not failing, a transcript is obtained with the
\* strategy outcomes exactly [NativeCaption:Failed, LocalEngine:Success], and
\* transcribe_with_whishper is never called.
C1_FallbackChainOrder ==
    ( /\ prog = "yt" /\ args.url_ok /\ ~args.audio_only
      /\ NoCaptionForRun
      /\ WHISPER_AVAILABLE
      /\ transcript_text # NoText
      /\ Attempt("LocalEngine", "Failed") \notin Range(attempts) )
    => /\ attempts = << Attempt("NativeCaption", "Failed"),
                        Attempt("LocalEngine", "Success") >>
       /\ ~RemoteCalled

C1_Witness ==
    /\ prog = "yt" /\ pc = "done" /\ exitCode = 0
    /\ ~args.audio_only /\ NoCaptionForRun /\ WHISPER_AVAILABLE
    /\ ~args.use_local_whisper
    /\ requests # <<>>
    /\ downloads = 1
    /\ attempts = << Attempt("NativeCaption", "Failed"),
                     Attempt("LocalEngine", "Success") >>
    /\ saved.src = "local"

\* C2: with --use-local-whisper and Whisper not installed, a run that reaches
\* the engine ends with exit status 1 reporting exactly the not-installed
\* error of transcribe_with_local_whisper, and the remote engine is never
\* called.
C2_PinnedUnavailableIsTerminal ==
    ( /\ prog = "yt" /\ args.use_local_whisper /\ ~WHISPER_AVAILABLE
      /\ calls # <<>> )
    => /\ calls = << [engine |-> "LocalEngine", file |-> audio_file] >>
       /\ pc \in {"fail", "done"}
       /\ reported = Err("WhisperNotInstalled", "-", "LocalEngine")
       /\ transcript_text = NoText
       /\ pc = "done" => exitCode = 1

C2_Witness ==
    /\ prog = "yt" /\ pc = "done" /\ exitCode = 1
    /\ args.use_local_whisper /\ ~WHISPER_AVAILABLE
    /\ calls = << [engine |-> "LocalEngine", file |-> YtAudioPath] >>
    /\ reported.kind = "WhisperNotInstalled"
    /\ saves = 0

\* C3: after a run that downloaded an audio file and was not asked to keep
\* it, the file is gone and the cleanup step ran exactly once, however the
\* run ended.
C3_NoAudioLeftBehind ==
    (pc = "done" /\ ~args.keep_audio /\ audio_file # NoFile)
    => (audio_file \notin disk /\ cleanups = 1)

\* C4: extract_acast_audio_url, given a page URL that holds the two ids and
\* a page request that fails, returns the constructed media URL.
C4_ConstructedUrlSurvivesFetchFailure ==
    ( /\ prog = "loc" /\ pc = "done"
      /\ args.url = "acast_ids"
      /\ web.fetch # "ok" )
    => (located.status = "ok" /\ located.audio_url = ConstructedUrl)

\* The well-formed episode blocks of the fetched page.
EpisodeBlocks ==
    {i \in DOMAIN web.page.blocks :
        web.page.blocks[i].json = "dict"
        /\ web.page.blocks[i].type = "PodcastEpisode"}

LocatedPage == prog = "loc" /\ pc = "done" /\ web.fetch = "ok"

\* C5 as stated: a page with an episode block that has a direct contentUrl
\* field makes either locator return that field's value.
C5_DirectContentUrlWins ==
    LET direct == {i \in EpisodeBlocks : web.page.blocks[i].contentUrl = "str"}
    IN (LocatedPage /\ direct # {})
       => /\ located.status = "ok"
          /\ \E i \in direct : located.audio_url = V(i, "contentUrl")

\* The media URL a locator reads from an episode block, if the block has one:
\* Apple Podcasts reads url, then associatedMedia.contentUrl, then
\* associatedMedia.url; Acast reads associatedMedia.contentUrl alone.
BlockUrl(platform, b, i) ==
    IF platform = "apple"
    THEN IF b.url = "str" THEN V(i, "url")
         ELSE IF b.media = "dict" /\ b.mcu = "str"
              THEN V(i, "associatedMedia.contentUrl")
         ELSE IF b.media = "dict" /\ b.murl = "str"
              THEN V(i, "associatedMedia.url")
         ELSE NoneVal
    ELSE IF b.media = "dict" /\ b.mcu = "str"
         THEN V(i, "associatedMedia.contentUrl")
         ELSE NoneVal

\* C5, amended: when an episode block of the fetched page has a media URL in
\* the fields the locator reads, the locator returns the URL of the first
\* such block, whatever top-level contentUrl fields, links matching the audio
\* pattern or constructible URL there are; a top-level contentUrl field is
\* never what it returns.
C5_StructuredUrlWins ==
    LocatedPage =>
      LET platform == Platform(args.url)
          yielding == {i \in EpisodeBlocks :
                          BlockUrl(platform, web.page.blocks[i], i) # NoneVal}
      IN /\ yielding # {} =>
              /\ located.status = "ok"
              /\ located.audio_url =
                   BlockUrl(platform, web.page.blocks[Min(yielding)], Min(yielding))
         /\ located.audio_url.field # "contentUrl"

C5_Witness ==
    /\ LocatedPage
    /\ args.url = "apple"
    /\ Len(web.page.blocks) = 1 /\ Len(web.page.links) = 1
    /\ 1 \in EpisodeBlocks
    /\ web.page.blocks[1].contentUrl = "str"
    /\ web.page.blocks[1].url = "str"
    /\ web.page.blocks[1].mcu = "str"
    /\ located.audio_url = V(1, "url")

\* The hosting words the claim's allow-list holds for a platform.
RecognisedHost(platform, link) ==
    link.host \in (IF platform = "apple" THEN AppleHosts ELSE AcastHosts)

\* C6: on a page without structured data and with two audio links, exactly
\* one of them on a recognised host, the locator returns that one, whatever
\* the order of the two and whatever words the path of the other holds.
C6_RecognisedCdnPreferred ==
    LET platform == Platform(args.url)
        links == web.page.links
        good == {i \in DOMAIN links : RecognisedHost(platform, links[i])}
    IN ( /\ LocatedPage
         /\ web.page.blocks = <<>>
         /\ Len(links) = 2
         /\ Cardinality(good) = 1 )
       => /\ located.status = "ok"
          /\ located.audio_url = LinkUrl(Min(good))

\* The positions of the language list whose caption request succeeds.
AvailablePositions ==
    {i \in DOMAIN args.languages : args.languages[i] \in video.captions}

\* C7: when get_transcript returns a track, the requests were made in list
\* order; if some listed language is available, they stop at the earliest
\* such entry, and the track and the language returned are that entry's.
C7_FirstAvailableLanguageWins ==
    (prog = "yt" /\ Attempt("NativeCaption", "Success") \in Range(attempts))
    => IF AvailablePositions # {}
       THEN LET k == Min(AvailablePositions) IN
            /\ requests = SubSeq(args.languages, 1, k)
            /\ language_used = args.languages[k]
            /\ transcript_text.src = "caption"
            /\ transcript_text.track = args.languages[k]
       ELSE /\ requests = Append(args.languages, "any")
            /\ language_used = "unknown"

C7_Witness ==
    /\ prog = "yt" /\ pc = "done" /\ exitCode = 0
    /\ args.languages = <<"fr", "en">>
    /\ video.captions = {"en"}
    /\ requests = <<"fr", "en">>
    /\ language_used = "en"
    /\ saved.track = "en"

\* Some caption request of this run's list, or the one without a language,
\* succeeds.
CaptionObtainable == AvailablePositions # {} \/ video.defaultTrack

C9_RemoteFallback ==
    prog = "yt" =>
      /\ ( /\ pc \in {"save", "fail", "cleanup", "done"}
           /\ Attempt("LocalEngine", "Failed") \in Range(attempts)
           /\ ~args.use_local_whisper )
         => /\ audio_file # NoFile
            /\ calls = << [engine |-> "LocalEngine", file |-> audio_file],
                          [engine |-> "RemoteEngine", file |-> audio_file] >>
      /\ \A i \in DOMAIN calls :
            (i > 1 /\ calls[i].engine = "RemoteEngine")
            => /\ i = 2
               /\ calls[1] = [engine |-> "LocalEngine", file |-> calls[2].file]
               /\ Attempt("LocalEngine", "Failed") \in Range(attempts)
               /\ ~args.use_local_whisper

C9_Witness ==
    /\ prog = "yt" /\ pc = "done" /\ exitCode = 0
    /\ WHISPER_AVAILABLE /\ ~args.use_local_whisper
    /\ attempts = << Attempt("NativeCaption", "Failed"),
                     Attempt("LocalEngine", "Failed"),
                     Attempt("RemoteEngine", "Success") >>
    /\ calls = << [engine |-> "LocalEngine", file |-> YtAudioPath],
                  [engine |-> "RemoteEngine", file |-> YtAudioPath] >>
    /\ saved.src = "remote"

\* The strategy a run attempted last: the strategies run in the order
\* caption, download, engines.
LastStrategy ==
    IF calls # <<>> THEN calls[Len(calls)].engine
    ELSE IF downloads > 0 THEN "Download"
    ELSE IF requests # <<>> THEN "NativeCaption"
    ELSE "-"

\* C10: a run that ends without a transcript after attempting a strategy
\* exits non-zero and reports the error raised by the strategy attempted
\* last; after a failed fallback that is the remote engine's error, not the
\* local engine's.
C10_LastErrorReported ==
    (pc = "done" /\ exitCode = 1 /\ transcript_text = NoText
     /\ LastStrategy # "-")
    => /\ reported.by = LastStrategy
       /\ Len(calls) = 2 => (reported \in WhishperErrors
                             /\ reported # whisper_error)

C10_Witness ==
    /\ prog = "yt" /\ pc = "done" /\ exitCode = 1
    /\ attempts = << Attempt("NativeCaption", "Failed"),
                     Attempt("LocalEngine", "Failed"),
                     Attempt("RemoteEngine", "Failed") >>
    /\ whisper_error.kind = "LocalWhisperFailed"
    /\ reported = Err("ConnectionError", "-", "RemoteEngine")

\* A YouTube run that has its video id and has left the start of main.
YtUnderWay == prog = "yt" /\ args.url_ok /\ pc # "start"

\* C11 as stated: with --audio-only no caption request is ever issued and the
\* run downloads the audio; without it a caption request precedes any
\* download and every finished run has issued one.
C11_CaptionsIffNotAudioOnly ==
    YtUnderWay =>
      IF args.audio_only
      THEN /\ requests = <<>>
           /\ pc = "done" => downloads = 1
      ELSE (downloads > 0 \/ pc = "done") => requests # <<>>

\* C11, amended: in a run without --list-transcripts, get_transcript is
\* called if and only if --audio-only is not set: with it no caption request
\* is issued and the first thing the run does is the download; without it
\* the caption strategy has been attempted before any download.  A run with
\* --list-transcripts issues one caption request per common language
\* whatever --audio-only says, and neither downloads nor transcribes.
C11_CaptionsIffNotAudioOnlyUnlessListing ==
    YtUnderWay =>
      IF args.list_transcripts
      THEN /\ pc \in {"list", "done"}
           /\ pc = "done" => requests = common_langs
           /\ downloads = 0 /\ attempts = <<>> /\ calls = <<>>
      ELSE IF args.audio_only
      THEN /\ requests = <<>>
           /\ pc # "caption"
           /\ Attempt("NativeCaption", "Success") \notin Range(attempts)
           /\ Attempt("NativeCaption", "Failed") \notin Range(attempts)
           /\ pc = "done" => downloads = 1
      ELSE /\ pc # "caption" => requests # <<>>
           /\ downloads > 0 =>
                 /\ requests # <<>>
                 /\ attempts # <<>>
                 /\ attempts[1] = Attempt("NativeCaption", "Failed")

C11_Witness ==
    /\ prog = "yt" /\ pc = "done" /\ exitCode = 0
    /\ args.audio_only /\ ~args.list_transcripts
    /\ video.captions # {} /\ video.defaultTrack
    /\ requests = <<>>
    /\ downloads = 1
    /\ saved # NoText

\* A YouTube run that calls get_transcript.
CaptionRun == YtUnderWay /\ ~args.list_transcripts /\ ~args.audio_only

\* C12: in a run whose caption requests all fail, the one per listed language
\* and the one without a language, the failure ends nothing: the run stands
\* at the download with no error reported and no exit status, and it never
\* gets further, or ends, without having called download_audio.
C12_CaptionFailureAdvancesToDownload ==
    (CaptionRun /\ NoCaptionForRun /\ pc # "caption")
    => /\ requests = Append(args.languages, "any")
       /\ attempts # <<>>
       /\ attempts[1] = Attempt("NativeCaption", "Failed")
       /\ IF pc = "download"
          THEN downloads = 0 /\ exitCode = -1 /\ reported = NoErr
          ELSE downloads = 1

C12_Witness ==
    /\ CaptionRun /\ NoCaptionForRun
    /\ Len(args.languages) = 2
    /\ pc = "done" /\ exitCode = 0
    /\ requests = Append(args.languages, "any")
    /\ attempts = << Attempt("NativeCaption", "Failed"),
                     Attempt("RemoteEngine", "Success") >>
    /\ downloads = 1
    /\ saved.src = "remote"

\* The file the download step of the running program writes.
DownloadedPath == IF prog = "yt" THEN YtAudioPath ELSE PodAudioPath

\* C13: a run calls download_audio at most once; every engine call follows
\* that one download and reads the file it returned, so two engine calls of
\* a run read the same file.
C13_OneDownloadShared ==
    /\ downloads <= 1
    /\ calls # <<>> =>
          /\ downloads = 1
          /\ audio_file = DownloadedPath
          /\ \A i \in DOMAIN calls : calls[i].file = audio_file
    /\ pc = "fallback" => downloads = 1

C13_Witness ==
    /\ prog = "yt" /\ pc = "done"
    /\ downloads = 1
    /\ Len(calls) = 2
    /\ calls[1].engine = "LocalEngine" /\ calls[2].engine = "RemoteEngine"
    /\ calls[1].file = YtAudioPath /\ calls[2].file = YtAudioPath

\* download_audio raised in this run.
DownloadFailed == downloads = 1 /\ reported.by = "Download"

\* C14: once download_audio has raised, the run is in its failure handler
\* or has ended with exit status 1; no engine is called, no transcript is
\* obtained and nothing is saved.
C14_DownloadFailureIsTerminal ==
    DownloadFailed
    => /\ pc \in {"fail", "done"}
       /\ pc = "done" => exitCode = 1
       /\ calls = <<>>
       /\ Attempt("LocalEngine", "Success") \notin Range(attempts)
       /\ Attempt("LocalEngine", "Failed") \notin Range(attempts)
       /\ Attempt("RemoteEngine", "Success") \notin Range(attempts)
       /\ Attempt("RemoteEngine", "Failed") \notin Range(attempts)
       /\ transcript_text = NoText
       /\ saves = 0

C14_Witness ==
    /\ prog = "yt" /\ pc = "done" /\ exitCode = 1
    /\ WHISPER_AVAILABLE
    /\ attempts = << Attempt("NativeCaption", "Failed") >>
    /\ reported = Err("DownloadFailed", "yt-dlp", "Download")
    /\ calls = <<>>
    /\ cleanups = 1

\* C15: in a YouTube run with Whisper not installed and --use-local-whisper
\* not set, the engine calls of the run are one call of
\* transcribe_with_whishper on the downloaded file and none of the local
\* engine; when that call fails the run ends with exit status 1 reporting its
\* error, without a transcript.
C15_RemoteSoleAttempt ==
    ( /\ prog = "yt" /\ ~WHISPER_AVAILABLE /\ ~args.use_local_whisper
      /\ pc \in {"save", "cleanup", "fail", "done"}
      /\ downloads = 1 /\ ~DownloadFailed )
    => /\ calls = << [engine |-> "RemoteEngine", file |-> YtAudioPath] >>
       /\ whisper_error = NoErr
       /\ Attempt("LocalEngine", "Failed") \notin Range(attempts)
       /\ Attempt("LocalEngine", "Success") \notin Range(attempts)
       /\ Attempt("RemoteEngine", "Failed") \in Range(attempts)
            => /\ pc \in {"fail", "done"}
               /\ pc = "done" => exitCode = 1
               /\ reported \in WhishperErrors
               /\ transcript_text = NoText
               /\ saves = 0

C15_Witness ==
    /\ prog = "yt" /\ pc = "done" /\ exitCode = 1
    /\ ~WHISPER_AVAILABLE /\ ~args.use_local_whisper
    /\ calls = << [engine |-> "RemoteEngine", file |-> YtAudioPath] >>
    /\ attempts = << Attempt("NativeCaption", "Failed"),
                     Attempt("RemoteEngine", "Failed") >>
    /\ reported = Err("Timeout", "-", "RemoteEngine")
    /\ saves = 0

\* C16: a finished run that failed before it had a transcript never called
\* save_transcript and exits non-zero; a finished run that obtained a
\* transcript wrote it and exits zero; and a transcript file is written by
\* successful runs only.
C16_SavedOnlyOnSuccess ==
    pc = "done" =>
      /\ (transcript_text = NoText /\ reported # NoErr)
            => (saves = 0 /\ saved = NoText /\ exitCode = 1)
      /\ transcript_text # NoText
            => (saves = 1 /\ saved = transcript_text /\ exitCode = 0)
      /\ saved # NoText => exitCode = 0

\* The values a locator can take from this page and this page URL.
MediaUrlsOffered ==
    {V(i, f) : i \in DOMAIN web.page.blocks,
               f \in {"url", "associatedMedia.contentUrl", "associatedMedia.url"}}
    \cup {LinkUrl(i) : i \in DOMAIN web.page.links}
    \cup (IF args.url = "acast_ids" THEN {ConstructedUrl} ELSE {})

\* No strategy has a media URL for this page: no episode block with one in
\* the fields read, no link matching the audio pattern, no ids in the URL.
NothingToLocate ==
    /\ \A i \in EpisodeBlocks :
          BlockUrl(Platform(args.url), web.page.blocks[i], i) = NoneVal
    /\ web.page.links = <<>>
    /\ args.url # "acast_ids"

\* C17: a locator whose page request succeeded raises "Could not extract
\* audio URL" when no strategy has a media URL, and whatever it returns is a
\* non-empty URL taken from the page or constructed from the ids, never None
\* and never the empty string.
C17_NoEmptyMediaUrl ==
    (prog = "loc" /\ pc = "done") =>
      /\ (web.fetch = "ok" /\ NothingToLocate)
            => located.status = "no audio url"
      /\ located.status = "ok"
            => /\ located.audio_url \notin {NoneVal, EmptyStr}
               /\ located.audio_url \in MediaUrlsOffered
               /\ ~NothingToLocate
      /\ located.status # "ok" => located.audio_url = NoneVal

C17_Witness ==
    /\ prog = "loc" /\ pc = "done"
    /\ web.fetch = "ok"
    /\ args.url = "acast_other"
    /\ Len(web.page.blocks) = 2
    /\ web.page.blocks[1].url = "empty" /\ web.page.blocks[1].mcu = "empty"
    /\ web.page.blocks[2].mcu = "null"
    /\ NothingToLocate
    /\ located.status = "no audio url"

\* The URL of the run matches no platform: neither 'acast.com' nor
\* 'podcasts.apple.com' for the podcast program, no video id for the other.
UnsupportedUrl ==
    \/ prog = "pod" /\ args.url = "unknown"
    \/ prog = "yt" /\ ~args.url_ok

\* C18: a run on a URL that matches no platform has ended with exit status 1
\* as soon as it leaves the start of main, with no locator called (no page
\* requested), no caption request, no download, no engine call and no
\* transcript saved.
C18_UnsupportedUrlAborts ==
    (UnsupportedUrl /\ pc # "start")
    => /\ pc = "done" /\ exitCode = 1
       /\ reported.kind \in {"Unsupported", "ValueError"}
       /\ located = NotLocated
       /\ requests = <<>>
       /\ downloads = 0 /\ audio_file = NoFile
       /\ calls = <<>> /\ attempts = <<>>
       /\ transcript_text = NoText
       /\ saves = 0 /\ saved = NoText

C18_Witness ==
    /\ prog = "pod" /\ args.url = "unknown"
    /\ web.fetch = "ok" /\ web.page.links # <<>>
    /\ WHISPER_AVAILABLE
    /\ pc = "done" /\ exitCode = 1
    /\ reported = Err("Unsupported", "platform", "main")
    /\ located = NotLocated

\* The caption strategy of this run succeeded.
CaptionSucceeded ==
    prog = "yt" /\ Attempt("NativeCaption", "Success") \in Range(attempts)

\* C19: every step a run takes after its caption strategy succeeded leaves
\* the files on disk as they are, downloads nothing and calls no engine; the
\* run goes from the save to the cleanup to its end, and the cleanup step,
\* with no audio file of this run, removes nothing, reports nothing and
\* exits zero.
C19_CaptionSuccessIsDirect ==
    [][ (CaptionSucceeded /\ pc # "done")
        => /\ disk' = disk
           /\ downloads' = 0 /\ calls' = <<>>
           /\ audio_file' = NoFile
           /\ pc = "save" => pc' \in {"cleanup", "done"}
           /\ pc = "cleanup" => /\ pc' = "done"
                                /\ exitCode' = 0
                                /\ reported' = NoErr
                                /\ saved' = transcript_text ]_vars

C19_Witness ==
    /\ CaptionSucceeded
    /\ pc = "done" /\ exitCode = 0
    /\ ~args.keep_audio
    /\ YtAudioPath \in disk
    /\ downloads = 0 /\ calls = <<>> /\ audio_file = NoFile
    /\ cleanups = 1
    /\ saved.src = "caption"

\* The positions of this run's caption requests that name no language.
UnconstrainedRequests == {i \in DOMAIN requests : requests[i] = "any"}

\* C20: in a run that calls get_transcript, a request without a language is
\* the last request, is preceded by one failed request per listed language
\* in list order, and is made at most once; once get_transcript is over and
\* no listed language was available it has been made exactly once; and the
\* caption strategy is recorded as failed only after it, with no default
\* track to return.
C20_UnconstrainedRequestLast ==
    CaptionRun =>
      /\ Cardinality(UnconstrainedRequests) <= 1
      /\ \A i \in UnconstrainedRequests :
            /\ i = Len(requests)
            /\ i = Len(args.languages) + 1
            /\ SubSeq(requests, 1, i - 1) = args.languages
            /\ AvailablePositions = {}
      /\ (pc # "caption" /\ AvailablePositions = {})
            => Cardinality(UnconstrainedRequests) = 1
      /\ Attempt("NativeCaption", "Failed") \in Range(attempts)
            => /\ requests = Append(args.languages, "any")
               /\ ~video.defaultTrack

C20_Witness ==
    /\ CaptionRun
    /\ args.languages = <<"fr", "en">>
    /\ video.captions = {}
    /\ video.defaultTrack
    /\ requests = <<"fr", "en", "any">>
    /\ language_used = "unknown"
    /\ pc = "done" /\ exitCode = 0
    /\ saved.src = "caption"

Strategies == {"NativeCaption", "LocalEngine", "RemoteEngine"}

\* The positions of the attempts of a strategy, and of the calls of an engine.
AttemptsOf(strategy) == {i \in DOMAIN attempts : attempts[i].strategy = strategy}
CallsOf(engine) == {i \in DOMAIN calls : calls[i].engine = engine}

\* C21: in a run every strategy has at most one outcome and every engine at
\* most one call, download_audio is called at most once, each engine call
\* has its outcome recorded in the same step, and a strategy follows another
\* only after that one failed, so that only the last outcome of a run can be
\* a success.
C21_EachStrategyOnce ==
    /\ \A st \in Strategies : Cardinality(AttemptsOf(st)) <= 1
    /\ \A e \in {"LocalEngine", "RemoteEngine"} :
          /\ Cardinality(CallsOf(e)) <= 1
          /\ Cardinality(CallsOf(e)) = Cardinality(AttemptsOf(e))
    /\ downloads <= 1
    /\ \A i \in DOMAIN attempts :
          i < Len(attempts) => attempts[i].outcome = "Failed"
    /\ \A i, j \in DOMAIN calls :
          (i < j /\ calls[i].engine = "LocalEngine")
             => calls[j].engine = "RemoteEngine"

C21_Witness ==
    /\ prog = "yt" /\ pc = "done" /\ exitCode = 1
    /\ Len(requests) = 3
    /\ downloads = 1 /\ cleanups = 1
    /\ Len(attempts) = 3
    /\ \A st \in Strategies : Cardinality(AttemptsOf(st)) = 1
    /\ \A i \in DOMAIN attempts : attempts[i].outcome = "Failed"
    /\ Len(calls) = 2

\* The Acast locator has run on a page it could fetch.
AcastLocated == LocatedPage /\ Platform(args.url) = "acast"

\* Some page-based strategy has a media URL: an episode block with one in
\* the field read, or a link matching the audio pattern.
FoundOnPage ==
    \/ \E i \in EpisodeBlocks :
          BlockUrl(Platform(args.url), web.page.blocks[i], i) # NoneVal
    \/ web.page.links # <<>>

\* C22: extract_acast_audio_url on a fetched page returns the constructed
\* URL exactly when the page URL holds the ids and neither the structured
\* data nor the pattern scan found a media URL; when either found one, the
\* value returned comes from the page.
C22_ConstructedUrlLastResort ==
    AcastLocated =>
      /\ FoundOnPage
            => /\ located.status = "ok"
               /\ located.audio_url.from \in {"ld", "scan"}
      /\ (~FoundOnPage /\ args.url = "acast_ids")
            => (located.status = "ok" /\ located.audio_url = ConstructedUrl)
      /\ located.audio_url = ConstructedUrl
            => (~FoundOnPage /\ args.url = "acast_ids")

C22_Witness ==
    /\ AcastLocated
    /\ args.url = "acast_ids"
    /\ Len(web.page.blocks) = 1 /\ 1 \in EpisodeBlocks
    /\ web.page.blocks[1].mcu = "absent"
    /\ Len(web.page.links) = 1
    /\ located.audio_url = LinkUrl(1)

\* The blocks that are no episode object: rejected by json.loads, parsed to
\* something that is no dict, or a dict of another type.
SkippedBlocks == DOMAIN web.page.blocks \ EpisodeBlocks

\* The title a locator reads from episode block i when it is the first
\* episode block of the page.
BlockTitle(b, i) ==
    IF b.name = "str" THEN V(i, "name")
    ELSE IF b.name = "absent" THEN UnknownEpisode
    ELSE NoneVal

\* C23: on a fetched page whose first episode block stands behind blocks
\* that are no episode objects, and has a media URL in a field the locator
\* reads, the locator returns that block's URL and title: the blocks before
\* it, malformed ones included, neither end the scan nor make it fail.
C23_MalformedBlockSkipped ==
    LocatedPage =>
      \A k \in EpisodeBlocks :
        ( /\ k > 1
          /\ \A j \in 1..(k - 1) : j \in SkippedBlocks
          /\ BlockUrl(Platform(args.url), web.page.blocks[k], k) # NoneVal )
        => /\ located.status = "ok"
           /\ located.audio_url =
                 BlockUrl(Platform(args.url), web.page.blocks[k], k)
           /\ located.episode_title = BlockTitle(web.page.blocks[k], k)

C23_Witness ==
    /\ LocatedPage
    /\ args.url = "acast_other"
    /\ Len(web.page.blocks) = 2 /\ web.page.links = <<>>
    /\ web.page.blocks[1] = MalformedBlock
    /\ 2 \in EpisodeBlocks
    /\ located.status = "ok"
    /\ located.audio_url = V(2, "associatedMedia.contentUrl")

\* A title or show name as the claim allows it: a string of the page or the
\* placeholder.
PageValueOrPlaceholder(v) == v.from \in {"ld", "default"}

\* C24: when the locator of a podcast run found a media URL, the title and
\* the show name it returns are each a value of the page or the placeholder,
\* and the run goes on to the download: the safe filename is built without
\* an error, whatever the title and series fields of the page hold.
C24_TitlesNeverFailExtraction ==
    (prog = "pod" /\ located.status = "ok")
    => /\ PageValueOrPlaceholder(located.episode_title)
       /\ PageValueOrPlaceholder(located.show_title)
       /\ reported.kind # "TypeError"
       /\ downloads = 0 => pc = "download"

\* C25: a transcript of the YouTube program that came from an engine is
\* saved as the engine's plain text whatever --format says, and the file it
\* is saved to by default is the plain-text one, transcripts/<id>.txt; the
\* format decides body and file only for a caption-sourced transcript.
C25_EngineOutputIsPlainText ==
    ( /\ prog = "yt" /\ pc \in {"cleanup", "done"}
      /\ saved.src \in {"local", "remote"} )
    => /\ saved = transcript_text
       /\ saved.fmt = "plain"
       /\ ~args.output => output_path = "transcripts/id.txt"

\* The language argument the claim expects the engine to get for a hint.
ExpectedWhisperLanguage(hint) == IF hint = "auto" THEN "None" ELSE hint

\* The hint a run hands to its local engine entry point.
LanguageHint == IF prog = "yt" THEN primary_language ELSE args.language

\* C26: in either program a transcript of the local engine was made with
\* the language argument None when the hint was "auto", and with the hint
\* itself for every language code, "en" included.
C26_SameLanguageHint ==
    (prog \in {"yt", "pod"} /\ transcript_text.src = "local")
    => transcript_text.track = ExpectedWhisperLanguage(LanguageHint)

\* The media request of the podcast download failed in this step.
MediaRequestFails ==
    /\ prog = "pod" /\ pc = "download"
    /\ reported' = Err("DownloadFailed", "request", "Download")

\* C27: a step of the podcast download_audio whose media request fails
\* raises the download error, which ends the run with exit status 1, and
\* leaves the files on disk as they were: the destination was not opened
\* for writing, so it is neither created nor, if an earlier run left it
\* there, truncated.
C27_RequestFailureLeavesNoFile ==
    [][ MediaRequestFails
        => /\ disk' = disk
           /\ opened' = FALSE
           /\ audio_file' = NoFile
           /\ pc' = "done" /\ exitCode' = 1
           /\ calls' = <<>> ]_vars

C27_Witness ==
    /\ prog = "pod" /\ pc = "done" /\ exitCode = 1
    /\ downloads = 1
    /\ reported = Err("DownloadFailed", "request", "Download")
    /\ ~opened
    /\ PodAudioPath \in disk
    /\ ~args.keep_audio

\* A YouTube run past the listing test, pinned to a local engine that is
\* not installed.
PinnedUnavailable ==
    /\ YtUnderWay /\ ~args.list_transcripts
    /\ args.use_local_whisper /\ ~WHISPER_AVAILABLE

\* C28: in a run pinned to a local engine that is not installed, the
\* not-installed error is raised by the engine call alone: by then the
\* captions were requested and failed unless --audio-only was set, and the
\* audio was downloaded; the run ends with exit status 1 and the downloaded
\* file is removed unless --keep-audio was set.  Before the engine call the
\* run reports no such error.
C28_NoUpFrontCapabilityCheck ==
    PinnedUnavailable =>
      IF reported.kind = "WhisperNotInstalled"
      THEN /\ IF args.audio_only THEN requests = <<>>
              ELSE /\ requests = Append(args.languages, "any")
                   /\ attempts[1] = Attempt("NativeCaption", "Failed")
           /\ downloads = 1 /\ audio_file = YtAudioPath
           /\ calls = << [engine |-> "LocalEngine", file |-> YtAudioPath] >>
           /\ pc \in {"fail", "done"}
           /\ pc = "fail" => YtAudioPath \in disk
           /\ pc = "done" =>
                 /\ exitCode = 1 /\ cleanups = 1
                 /\ (YtAudioPath \in disk) = args.keep_audio
      ELSE /\ calls = <<>>
           /\ pc = "engine" => (downloads = 1 /\ YtAudioPath \in disk)

C28_Witness ==
    /\ PinnedUnavailable
    /\ ~args.audio_only /\ ~args.keep_audio
    /\ pc = "done" /\ exitCode = 1
    /\ requests = Append(args.languages, "any")
    /\ downloads = 1
    /\ reported.kind = "WhisperNotInstalled"
    /\ YtAudioPath \notin disk
    /\ cleanups = 1

\* C29: a podcast run issues no caption request and calls no remote engine;
\* once its download has succeeded the next step is the one call of the
\* local engine, on the downloaded file; and when that call fails, Whisper
\* not being installed included, the run has ended with exit status 1 and
\* no transcript, the failed local attempt its only attempt.
C29_PodcastLocalEngineOnly ==
    prog = "pod" =>
      /\ requests = <<>>
      /\ ~RemoteCalled
      /\ AttemptsOf("NativeCaption") = {} /\ AttemptsOf("RemoteEngine") = {}
      /\ Len(calls) <= 1
      /\ pc = "engine" => (downloads = 1 /\ audio_file = PodAudioPath)
      /\ audio_file # NoFile =>
            \/ pc = "engine" /\ calls = <<>>
            \/ calls = << [engine |-> "LocalEngine", file |-> PodAudioPath] >>
      /\ Attempt("LocalEngine", "Failed") \in Range(attempts) =>
            /\ attempts = << Attempt("LocalEngine", "Failed") >>
            /\ pc = "done" /\ exitCode = 1
            /\ reported.by = "LocalEngine"
            /\ transcript_text = NoText
            /\ saves = 0

C29_Witness ==
    /\ prog = "pod" /\ pc = "done" /\ exitCode = 1
    /\ ~WHISPER_AVAILABLE
    /\ downloads = 1
    /\ calls = << [engine |-> "LocalEngine", file |-> PodAudioPath] >>
    /\ attempts = << Attempt("LocalEngine", "Failed") >>
    /\ reported = Err("WhisperNotInstalled", "-", "LocalEngine")

====
